---- MODULE Spec2Model ----
(***************************************************************************)
(* Bouncing-Wave grid (src/src/App.js): the App component's state, its     *)
(* animation effect (one setInterval per effect run), its event handlers   *)
(* and its two render functions generateWavePattern and getColor.          *)
(*                                                                         *)
(* One action is one event as the browser delivers it: the handler, the    *)
(* state updates it queues, the re-render, and the animation effect's      *)
(* cleanup and re-run when one of its dependencies changed.                *)
(*                                                                         *)
(* Numbers the code keeps as floats in [0,1] are kept here in thousandths  *)
(* (0..1000), angles in milliradians.                                      *)
(***************************************************************************)
EXTENDS Integers, Sequences, FiniteSets, TLC

VARIABLES
    gridSize,       \* useState({ rows: 15, cols: 20 })
    wavePosition,   \* useState(0)
    waveDirection,  \* useState(1)
    colorPhase,     \* useState(0)
    isPlaying,      \* useState(true)
    speed,          \* useState(150)
    mounted,        \* the component is mounted
    intervals,      \* the live setInterval timers, each with the values its callback closed over
    tickRun,        \* history: ticks since the last mount or reset, while nothing but ticks happened
    pause,          \* history: position and phase at the last pause, until the first tick after resume
    lastInput       \* history: the slider and the string of the grid size change, when that was the last step

vars == <<gridSize, wavePosition, waveDirection, colorPhase, isPlaying, speed,
          mounted, intervals, tickRun, pause, lastInput>>

state == <<gridSize, wavePosition, waveDirection, colorPhase, isPlaying, speed>>

----------------------------------------------------------------------------
(* Bounds of the model.                                                    *)

\* tickRun counts this far, then is dropped
MaxTicks == 245
\* longest input string handed to handleGridSizeChange in GridSpec
MaxLen == 2

----------------------------------------------------------------------------
(* JavaScript helpers.                                                     *)

Max(a, b) == IF a >= b THEN a ELSE b
Min(a, b) == IF a <= b THEN a ELSE b
Abs(x) == IF x < 0 THEN 0 - x ELSE x

\* A string is a sequence of one-character strings.
DigitChars == {"0", "1", "2", "3", "4", "5", "6", "7", "8", "9"}
DigitVal(c) ==
    CASE c = "0" -> 0 [] c = "1" -> 1 [] c = "2" -> 2 [] c = "3" -> 3
      [] c = "4" -> 4 [] c = "5" -> 5 [] c = "6" -> 6 [] c = "7" -> 7
      [] c = "8" -> 8 [] c = "9" -> 9

\* A JavaScript number that may be NaN.
NaN == [nan |-> TRUE, val |-> 0]
Num(n) == [nan |-> FALSE, val |-> n]

RECURSIVE SkipSpace(_)
SkipSpace(s) == IF s # <<>> /\ Head(s) = " " THEN SkipSpace(Tail(s)) ELSE s

RECURSIVE ReadDigits(_, _)
ReadDigits(s, acc) ==
    IF s # <<>> /\ Head(s) \in DigitChars
    THEN ReadDigits(Tail(s), acc * 10 + DigitVal(Head(s)))
    ELSE acc

\* parseInt(value): leading white space, an optional sign, then the longest
\* run of decimal digits; NaN when there is no digit.
parseInt(value) ==
    LET s == SkipSpace(value)
        signed == s # <<>> /\ Head(s) \in {"-", "+"}
        body == IF signed THEN Tail(s) ELSE s
    IN  IF body = <<>> \/ Head(body) \notin DigitChars
        THEN NaN
        ELSE Num((IF signed /\ Head(s) = "-" THEN 0 - 1 ELSE 1) * ReadDigits(body, 0))

\* x || d on a number: NaN and 0 are falsy.
OrElse(x, d) == IF x.nan \/ x.val = 0 THEN d ELSE x.val

----------------------------------------------------------------------------
(* The animation effect, App.js 66-87.                                     *)

\* the effect's dependency array
Deps == <<isPlaying, waveDirection, gridSize.cols, speed>>

\* the closure of one setInterval callback, and its delay
Interval(deps) == [waveDirection |-> deps[2], cols |-> deps[3], speed |-> deps[4]]

\* return () => clearInterval(interval): the effect run that is cleaned up
\* owns the timer created last
\* (variant: a cleanup that forgets clearInterval)
SkipCleanup(ivs) == ivs
Cleanup(ivs) == IF ivs = <<>> THEN <<>> ELSE SubSeq(ivs, 1, Len(ivs) - 1)

DepsChanged(old, new) == old # new

\* after a render: when a dependency changed, clean up the previous run and
\* run the effect again; it returns at once when not playing
useEffect(ivs, old, new) ==
    IF ~DepsChanged(old, new)
    THEN ivs
    ELSE IF ~new[1]
         THEN Cleanup(ivs)
         ELSE Append(Cleanup(ivs), Interval(new))

----------------------------------------------------------------------------
(* History variables.                                                      *)

NoRun == [live |-> FALSE, n |-> 0]
FreshRun == [live |-> TRUE, n |-> 0]
NoPause == [st |-> "none", pos |-> 0, phase |-> 0]
NoInput == [type |-> "none", value |-> <<>>]

----------------------------------------------------------------------------
(* Mount.                                                                  *)

Init ==
    /\ gridSize = [rows |-> 15, cols |-> 20]
    /\ wavePosition = 0
    /\ waveDirection = 1
    /\ colorPhase = 0
    /\ isPlaying = TRUE
    /\ speed = 150
    /\ mounted = TRUE
    /\ intervals = <<Interval(<<TRUE, 1, 20, 150>>)>>
    /\ tickRun = FreshRun
    /\ pause = NoPause
    /\ lastInput = NoInput

----------------------------------------------------------------------------
(* The timer callback, App.js 69-84.                                       *)

\* setWavePosition's updater, with the waveDirection and cols the callback
\* closed over: the new position and the direction it sets
\* (variant: strict comparisons, the flip one tick after reaching the edge)
BounceLate(prev, dir, cols) ==
    LET newPos == prev + dir
    IN  IF newPos > cols - 3 THEN [pos |-> cols - 3, dir |-> 0 - 1]
        ELSE IF newPos < 0 THEN [pos |-> 0, dir |-> 1]
        ELSE [pos |-> newPos, dir |-> dir]
\* (variant: clamps at the edges without reversing)
BounceStuck(prev, dir, cols) ==
    LET newPos == prev + dir
    IN  IF newPos >= cols - 3 THEN [pos |-> cols - 3, dir |-> dir]
        ELSE IF newPos <= 0 THEN [pos |-> 0, dir |-> dir]
        ELSE [pos |-> newPos, dir |-> dir]
Bounce(prev, dir, cols) ==
    LET newPos == prev + dir
    IN  IF newPos >= cols - 3 THEN [pos |-> cols - 3, dir |-> 0 - 1]
        ELSE IF newPos <= 0 THEN [pos |-> 0, dir |-> 1]
        ELSE [pos |-> newPos, dir |-> dir]

\* setColorPhase's updater
\* (variant: wraps one tick late)
NextPhaseOff(prev) == (prev + 1) % 241
NextPhase(prev) == (prev + 1) % 240

TickOf(i) ==
    LET b == Bounce(wavePosition, intervals[i].waveDirection, intervals[i].cols)
    IN  /\ wavePosition' = b.pos
        /\ waveDirection' = b.dir
        /\ colorPhase' = NextPhase(colorPhase)
        /\ UNCHANGED <<gridSize, isPlaying, speed, mounted>>
        /\ intervals' = useEffect(intervals, Deps, Deps')
        /\ tickRun' = IF tickRun.live /\ tickRun.n < MaxTicks
                      THEN [tickRun EXCEPT !.n = @ + 1]
                      ELSE NoRun
        /\ pause' = IF pause.st = "resumed" THEN NoPause ELSE pause
        /\ lastInput' = NoInput

Tick == \E i \in DOMAIN intervals : TickOf(i)

----------------------------------------------------------------------------
(* The handlers, App.js 89-105 and 139.                                    *)

\* Math.max(5, Math.min(30, parseInt(value) || 5))
\* (variant: Math.min and Math.max exchanged)
NewValueSwapped(value) == Min(5, Max(30, OrElse(parseInt(value), 5)))
NewValue(value) == Max(5, Min(30, OrElse(parseInt(value), 5)))

handleGridSizeChange(type, value) ==
    /\ mounted
    /\ gridSize' = [gridSize EXCEPT ![type] = NewValue(value)]
    /\ UNCHANGED <<wavePosition, waveDirection, colorPhase, isPlaying, speed, mounted>>
    /\ intervals' = useEffect(intervals, Deps, Deps')
    /\ tickRun' = NoRun
    /\ pause' = IF type = "cols" THEN NoPause ELSE pause
    /\ lastInput' = [type |-> type, value |-> value]

togglePlayPause ==
    /\ mounted
    /\ isPlaying' = ~isPlaying
    /\ UNCHANGED <<gridSize, wavePosition, waveDirection, colorPhase, speed, mounted>>
    /\ intervals' = useEffect(intervals, Deps, Deps')
    /\ tickRun' = NoRun
    /\ pause' = IF isPlaying
                THEN [st |-> "paused", pos |-> wavePosition, phase |-> colorPhase]
                ELSE IF pause.st = "paused" THEN [pause EXCEPT !.st = "resumed"]
                ELSE pause
    /\ lastInput' = NoInput

\* (variants: a reset that forgets setColorPhase(0), one that forgets
\* setWavePosition(0))
resetWaveKeepsPhase ==
    /\ mounted
    /\ wavePosition' = 0
    /\ waveDirection' = 1
    /\ UNCHANGED <<colorPhase, gridSize, isPlaying, speed, mounted>>
    /\ intervals' = useEffect(intervals, Deps, Deps')
    /\ tickRun' = FreshRun
    /\ pause' = NoPause
    /\ lastInput' = NoInput
resetWaveKeepsPosition ==
    /\ mounted
    /\ waveDirection' = 1
    /\ colorPhase' = 0
    /\ UNCHANGED <<wavePosition, gridSize, isPlaying, speed, mounted>>
    /\ intervals' = useEffect(intervals, Deps, Deps')
    /\ tickRun' = FreshRun
    /\ pause' = NoPause
    /\ lastInput' = NoInput
resetWave ==
    /\ mounted
    /\ wavePosition' = 0
    /\ waveDirection' = 1
    /\ colorPhase' = 0
    /\ UNCHANGED <<gridSize, isPlaying, speed, mounted>>
    /\ intervals' = useEffect(intervals, Deps, Deps')
    /\ tickRun' = FreshRun
    /\ pause' = NoPause
    /\ lastInput' = NoInput

\* onChange of the speed slider: setSpeed(parseInt(e.target.value))
setSpeed(value) ==
    /\ mounted
    /\ speed' = parseInt(value).val
    /\ UNCHANGED <<gridSize, wavePosition, waveDirection, colorPhase, isPlaying, mounted>>
    /\ intervals' = useEffect(intervals, Deps, Deps')
    /\ tickRun' = NoRun
    /\ pause' = pause
    /\ lastInput' = NoInput

\* unmount: the last effect run is cleaned up, the state is never written again
Unmount ==
    /\ mounted
    /\ mounted' = FALSE
    /\ intervals' = Cleanup(intervals)
    /\ UNCHANGED <<state, tickRun, pause>>
    /\ lastInput' = NoInput

----------------------------------------------------------------------------
(* The sliders, App.js 114-141: a range input hands its handler the        *)
(* decimal string of an integer between its min and its max.               *)

RowStops == {<<"5">>}
ColStops == {<<"5">>, <<"2", "0">>}
SpeedStops == {<<"5", "0">>}

RowsSlider == \E v \in RowStops : handleGridSizeChange("rows", v)
ColsSlider == \E v \in ColStops : handleGridSizeChange("cols", v)
SpeedSlider == \E v \in SpeedStops : setSpeed(v)

Next ==
    \/ Tick
    \/ RowsSlider
    \/ ColsSlider
    \/ SpeedSlider
    \/ togglePlayPause
    \/ resetWave
    \/ Unmount

Spec == Init /\ [][Next]_vars

----------------------------------------------------------------------------
(* The render functions, App.js 13-63, in thousandths.                     *)

\* Math.sin of an angle x >= 0 in milliradians, in thousandths: the angle
\* reduced to one period, then Bhaskara's rational approximation on a half
\* period (within 2 thousandths of the sine)
HalfWave(x) ==
    LET p == (x * (3142 - x)) \div 100
    IN  Min(1000, (16000 * p) \div (493480 - 4 * p))
sin(x) ==
    LET r == x % 6283
    IN  IF r <= 3142 THEN HalfWave(r) ELSE 0 - HalfWave(Min(r - 3142, 3142))

\* Math.max(0, Math.min(1, x))
clamp01(x) == Max(0, Min(1000, x))

\* Math.max(0, 1 - (distanceFromCenter / 3.5))
\* (variant: a falloff of 4.5 columns)
WideWaveIntensity(distanceFromCenter) ==
    Max(0, 1000 - (distanceFromCenter * 10000) \div 45)
waveIntensityOf(distanceFromCenter) ==
    Max(0, 1000 - (distanceFromCenter * 10000) \div 35)

\* one element of the array generateWavePattern(row, time) returns
Cell(row, time, col) ==
    LET centerPosition == wavePosition
        distanceFromCenter == Abs(col - centerPosition)
        waveIntensity == waveIntensityOf(distanceFromCenter)
        gradientPosition == ((col - (centerPosition - 3)) * 1000) \div 6
        clampedGradient == clamp01(gradientPosition)
        rowEffect == (sin(row * 500 + time * 20) * 300) \div 1000 + 700
        timeEffect == (sin(time * 30 + col * 100) * 200) \div 1000 + 800
        waveEffect == (sin(distanceFromCenter * 500 + time * 15) * 150) \div 1000 + 850
        dynamicIntensity ==
            (((((waveIntensity * rowEffect) \div 1000) * timeEffect) \div 1000)
                * waveEffect) \div 1000
        dynamicGradient ==
            (clampedGradient * (500 + (500 * sin(time * 25 + row * 300)) \div 1000))
                \div 1000
    IN  IF waveIntensity > 0
        THEN [intensity |->
                 clamp01((dynamicIntensity * (300 + (700 * clampedGradient) \div 1000))
                             \div 1000),
              gradientPos |-> clamp01(dynamicGradient)]
        ELSE [intensity |-> 0, gradientPos |-> 0]

\* the array itself: gridSize.cols cells, for col = 0 .. cols-1
generateWavePattern(row, time) ==
    [k \in 1..gridSize.cols |-> Cell(row, time, k - 1)]

\* Math.floor(phase / 40) % 6
colorCycle(phase) == (phase \div 40) % 6

\* '#1a1a1a'
Dark == [css |-> "#1a1a1a", hue |-> 0, saturation |-> 0, lightness |-> 0]

\* `hsl(${hue}, ${saturation}%, ${lightness}%)`
getColor(intensity, gradientPos, phase) ==
    IF intensity = 0
    THEN Dark
    ELSE LET baseHue == colorCycle(phase) * 60
         IN  [css |-> "hsl",
              hue |-> (baseHue * 1000 + gradientPos * 40) % 360000,
              saturation |-> 85000 + intensity * 15,
              lightness |-> 40000 + intensity * 35]

\* the grid as the component draws it, App.js 159-172
backgroundColor(row, col) ==
    LET cell == generateWavePattern(row, colorPhase)[col + 1]
    IN  getColor(cell.intensity, cell.gradientPos, colorPhase)

----------------------------------------------------------------------------
(* Steps of the handlers, as the properties below name them.               *)

TickStep == Tick
ResetStep == resetWave
ColsMax == gridSize.cols - 3

\* C1: in every reachable state the wave position lies in [0, cols-3] for
\* the current cols.
C1_PositionInRange == 0 <= wavePosition /\ wavePosition <= ColsMax

\* C2 as claimed: cols = 20, from position 0 and direction +1 with only
\* ticks: after 17 ticks position 17 and the direction still +1; after 18
\* ticks position 17 and direction -1.
C2_ScenarioAsClaimed ==
    (tickRun.live /\ gridSize.cols = 20) =>
        /\ tickRun.n = 17 => (wavePosition = 17 /\ waveDirection = 1)
        /\ tickRun.n = 18 => (wavePosition = 17 /\ waveDirection = 0 - 1)

\* C2 amended: cols = 20, from position 0 and direction +1 with only ticks:
\* after 16 ticks position 16 and direction +1; the 17th tick reaches 17
\* (= cols-3) and flips the direction to -1; after 18 ticks the position is 16.
C2_Scenario ==
    (tickRun.live /\ gridSize.cols = 20) =>
        /\ tickRun.n = 16 => (wavePosition = 16 /\ waveDirection = 1)
        /\ tickRun.n = 17 => (wavePosition = 17 /\ waveDirection = 0 - 1)
        /\ tickRun.n = 18 => (wavePosition = 16 /\ waveDirection = 0 - 1)

C2_Witness ==
    tickRun.live /\ gridSize.cols = 20 /\ tickRun.n = 18 /\ wavePosition = 16

\* C3: no step changes the direction and leaves the position strictly
\* inside (0, cols-3).
C3_FlipOnlyAtBoundary ==
    [][waveDirection' # waveDirection =>
         ~(0 < wavePosition' /\ wavePosition' < gridSize.cols' - 3)]_vars

\* a tick has just flipped the direction at the right boundary
C3_Witness ==
    /\ tickRun.live /\ tickRun.n = 17 /\ gridSize.cols = 20
    /\ wavePosition = 17 /\ waveDirection = 0 - 1

\* C4: reset from any state yields position 0, direction +1, phase 0 and
\* leaves isPlaying, rows, cols and speed unchanged.
C4_ResetFrame ==
    [][ResetStep =>
         /\ wavePosition' = 0 /\ waveDirection' = 1 /\ colorPhase' = 0
         /\ UNCHANGED <<isPlaying, gridSize, speed>>]_vars

\* a reset while paused, on a grid and speed that are not the defaults
C4_Witness ==
    /\ tickRun = FreshRun /\ ~isPlaying /\ mounted
    /\ gridSize = [rows |-> 5, cols |-> 5] /\ speed = 50
    /\ wavePosition = 0 /\ waveDirection = 1 /\ colorPhase = 0

\* C5: while paused no step but reset changes position, direction or phase;
\* and the first tick after pause and resume moves the position by at most
\* one column and the phase by exactly +1 mod 240 from their values at the
\* pause.
C5_PauseResume ==
    [][/\ (~isPlaying /\ ~ResetStep) =>
            UNCHANGED <<wavePosition, waveDirection, colorPhase>>
       /\ (pause.st = "resumed" /\ TickStep) =>
            /\ Abs(wavePosition' - pause.pos) <= 1
            /\ colorPhase' = (pause.phase + 1) % 240]_vars

\* C6: at most one timer is live; it closed over the current direction and
\* cols and runs at the current speed; none is live while paused or after
\* unmount, and nothing writes the state after unmount.
TimersInSync ==
    /\ Len(intervals) <= 1
    /\ \A i \in DOMAIN intervals : intervals[i] = Interval(Deps)
    /\ (~isPlaying \/ ~mounted) => intervals = <<>>
C6_OneTimerInSync == []TimersInSync /\ [][~mounted => UNCHANGED state]_vars

\* the timer was created again after a bounce and a speed change
C6_Witness ==
    /\ Len(intervals) = 1
    /\ intervals[1] = [waveDirection |-> 0 - 1, cols |-> 5, speed |-> 50]
    /\ waveDirection = 0 - 1 /\ gridSize.cols = 5 /\ speed = 50

\* C7: the phase is an integer in [0,240); a tick sets it to (phase+1) mod
\* 240; over a run of ticks the hue band floor(phase/40) mod 6 moves by one
\* (mod 6) on every 40th tick, stays on the other 39 and is back after 240.
C7_PhaseAndBand ==
    /\ [](colorPhase \in 0..239)
    /\ [](tickRun.live =>
            /\ colorPhase = tickRun.n % 240
            /\ colorCycle(colorPhase) = (tickRun.n \div 40) % 6)
    /\ [][TickStep =>
            /\ colorPhase' = (colorPhase + 1) % 240
            /\ colorCycle(colorPhase') =
                 IF colorPhase' % 40 = 0
                 THEN (colorCycle(colorPhase) + 1) % 6
                 ELSE colorCycle(colorPhase)]_vars

\* 240 ticks in a row: the phase has wrapped to 0
C7_Witness == tickRun.live /\ tickRun.n = 240 /\ colorPhase = 0

----------------------------------------------------------------------------
(* The grid as drawn while the wave runs: any slider grid, ticks, and cols *)
(* changes that leave the wave where it was.                               *)

RenderGrids == {[rows |-> r, cols |-> c] : r \in {5, 15}, c \in {5, 20}}

\* the widget after a reset on one of the grids
RenderInit ==
    /\ gridSize \in RenderGrids
    /\ wavePosition = 0
    /\ waveDirection = 1
    /\ colorPhase = 0
    /\ isPlaying = TRUE
    /\ speed = 150
    /\ mounted = TRUE
    /\ intervals = <<Interval(<<TRUE, 1, gridSize.cols, 150>>)>>
    /\ tickRun = FreshRun
    /\ pause = NoPause
    /\ lastInput = NoInput

RenderNext ==
    \/ Tick
    \/ ColsSlider

RenderSpec == RenderInit /\ [][RenderNext]_vars

----------------------------------------------------------------------------
(* handleGridSizeChange on any short string, not only a slider's.          *)

GridChars == {"0", "2", "7", "-", "a", " "}
GridStrings == UNION {[1..k -> GridChars] : k \in 0..MaxLen}

GridNext ==
    \E type \in {"rows", "cols"}, v \in GridStrings : handleGridSizeChange(type, v)

GridSpec == Init /\ [][GridNext]_vars

\* parseInt(v) clamped to [5,30], 5 when v is unparsable
Clamped(v) ==
    LET n == parseInt(v)
    IN  IF n.nan THEN 5
        ELSE IF n.val < 5 THEN 5
        ELSE IF n.val > 30 THEN 30
        ELSE n.val

Other(type) == IF type = "rows" THEN "cols" ELSE "rows"

\* C8: rows and cols are integers in [5,30] in every reachable state;
\* handleGridSizeChange(type, v) sets the named dimension to parseInt(v)
\* clamped to [5,30], or to 5 when v is unparsable, and leaves the other
\* dimension unchanged.
C8_GridSizeClamped ==
    /\ [](gridSize.rows \in 5..30 /\ gridSize.cols \in 5..30)
    /\ [](lastInput.type # "none" =>
            gridSize[lastInput.type] = Clamped(lastInput.value))
    /\ [][lastInput'.type # "none" =>
            gridSize'[Other(lastInput'.type)] = gridSize[Other(lastInput'.type)]]_vars

\* rows clamped down from 77, after cols was set to 5 by a string that
\* parses to 0 or does not parse (no string of GridChars spells 5)
C8_Witness ==
    /\ lastInput = [type |-> "rows", value |-> <<"7", "7">>]
    /\ gridSize = [rows |-> 30, cols |-> 5]

----------------------------------------------------------------------------
(* Liveness: the timer keeps firing while it is live.                      *)

LiveSpec == Init /\ [][Next]_vars /\ WF_vars(Tick)

StaysPlaying == <>[](isPlaying /\ mounted)
ColsSettled == <>[][gridSize.cols' = gridSize.cols]_vars
NoMoreResets == <>[][~ResetStep]_vars
Bounces == []<>(wavePosition = ColsMax) /\ []<>(wavePosition = 0)
ArrivalsTurn ==
    [][TickStep =>
         /\ wavePosition' = gridSize.cols' - 3 => waveDirection' = 0 - 1
         /\ wavePosition' = 0 => waveDirection' = 1]_vars

\* C10 as claimed: if the widget stays playing and cols is not changed
\* again, the position is cols-3 infinitely often and 0 infinitely often,
\* and a tick that arrives at cols-3 leaves direction -1, one that arrives
\* at 0 leaves +1.
C10_BounceAsClaimed ==
    /\ (StaysPlaying /\ ColsSettled) => Bounces
    /\ ArrivalsTurn

\* C10 amended: the same, provided reset is not invoked for ever again.
C10_Bounce ==
    /\ (StaysPlaying /\ ColsSettled /\ NoMoreResets) => Bounces
    /\ ArrivalsTurn

\* the wave back at the left edge after a full bounce
C10_Witness ==
    /\ tickRun.live /\ tickRun.n = 34 /\ gridSize.cols = 20 /\ isPlaying
    /\ wavePosition = 0 /\ waveDirection = 1

====
